---- MODULE Spec2Model ----
(***************************************************************************)
(* A model of watershed_workflow/hydrography.py: conditioning of a forest *)
(* of river trees against a set of watershed boundaries (snap, crossing   *)
(* cutting, cleanup) and the hydrologic filters (pruneByArea,             *)
(* removeDiversions, removeBraids, removeDivergences, filterSmallRivers).  *)
(*                                                                         *)
(* Lengths and coordinates are integers in units of the default tolerance *)
(* _tol (0.1 m): Tol == 1 is hydrography.py's _tol.                       *)
(***************************************************************************)
EXTENDS Integers, Sequences, FiniteSets, TLC

\* ---------------------------------------------------------------- bounds
\* the largest number of reaches of an input forest of the hydrologic filters
MaxNodes == 4

\* the largest number of reaches of a forest whose geometry varies
MaxGeoNodes == 3

\* hydrography.py:21, _tol = 0.1, the unit of length of this model
Tol == 1

\* Python's None (an absent tolerance, an absent parent, an absent node)
None == 0 - 1

VARIABLES
    rivers,   \* the caller's list of River trees (mutated in place)
    seg,      \* node.segment of every reach: a sequence of <<x, y>> points
    prop,     \* node.properties of every reach
    catch,    \* per reach, the reaches whose catchments are attributed to it
    hucs,     \* the SplitHUCs object: segments, boundaries, intersections
    call,     \* the exposed operation that ran and its arguments and pre-state
    ret,      \* what that operation returned (or that it raised)
    log       \* what the operation did, step by step

vars == <<rivers, seg, prop, catch, hucs, call, ret, log>>

\* ---------------------------------------------------------------- sequences
SeqToSet(s) == {s[i] : i \in 1..Len(s)}

Remove(s, x) == SelectSeq(s, LAMBDA y : y # x)

Front(s) == SubSeq(s, 1, Len(s) - 1)

Last(s) == s[Len(s)]

RECURSIVE Flatten(_)
Flatten(ss) == IF ss = <<>> THEN <<>> ELSE Head(ss) \o Flatten(Tail(ss))

RECURSIVE SortedSeq(_)
SortedSeq(S) ==
    IF S = {} THEN <<>>
    ELSE LET m == CHOOSE x \in S : \A y \in S : x <= y
         IN <<m>> \o SortedSeq(S \ {m})

RECURSIVE SumSeq(_)
SumSeq(s) == IF s = <<>> THEN 0 ELSE Head(s) + SumSeq(Tail(s))

\* ---------------------------------------------------------------- the River tree
\* A River is [root |-> id, kids |-> [id -> sequence of ids]]: kids[n] is the
\* list node.children, in its order; the domain of kids is the set of reaches
\* of the tree.  Reach ids are unique over the forest; a reach's hydrologic
\* sequence number is its id.
Nodes(T) == DOMAIN T.kids

children(T, n) == T.kids[n]

parent(T, n) ==
    IF \E p \in Nodes(T) : n \in SeqToSet(T.kids[p])
    THEN CHOOSE p \in Nodes(T) : n \in SeqToSet(T.kids[p])
    ELSE None

\* list(node.preOrder()) of a tree that is not mutated meanwhile
RECURSIVE preOrder(_, _)
preOrder(T, n) ==
    <<n>> \o Flatten([i \in 1..Len(T.kids[n]) |-> preOrder(T, T.kids[n][i])])

\* len(node): the number of reaches of the subtree of node
len(T, n) == Len(preOrder(T, n))

\* len(river)
lenRiver(T) == len(T, T.root)

\* river.getNode(key): the reach of the river with that hydrologic key, or None
getNode(T, key) == IF key \in Nodes(T) THEN key ELSE None

\* node.pathToRoot(): node, its parent, ... up to the root
RECURSIVE pathToRoot(_, _)
pathToRoot(T, n) ==
    IF parent(T, n) = None THEN <<n>> ELSE <<n>> \o pathToRoot(T, parent(T, n))

\* node.prune(preserve_catchments) on the tree: the subtree of node leaves the
\* tree and node leaves node.parent.children
pruneTree(T, n) ==
    LET gone == SeqToSet(preOrder(T, n))
    IN [root |-> T.root,
        kids |-> [m \in Nodes(T) \ gone |-> Remove(T.kids[m], n)]]

\* node.prune(preserve_catchments) on the catchments: with preserve_catchments
\* the catchments of the removed reaches are folded into the parent's
pruneCatch(T, n, c, preserve_catchments) ==
    IF preserve_catchments
    THEN [c EXCEPT ![parent(T, n)] =
            @ \cup UNION {c[m] : m \in SeqToSet(preOrder(T, n))}]
    ELSE c

\* The generator node.preOrder() while the tree is mutated: a stack of frames
\* <<node, i>>, one per nested generator, i the index of the next element the
\* frame's `for c in self.children` reads from the live list node.children.
\* iterNext resumes the generator: node is the reach it yields, None at the end.
RECURSIVE iterNext(_, _)
iterNext(T, S) ==
    IF S = <<>> THEN [node |-> None, stack |-> <<>>]
    ELSE LET n  == Last(S)[1]
             i  == Last(S)[2]
             ks == IF n \in Nodes(T) THEN T.kids[n] ELSE <<>>
         IN IF i <= Len(ks)
            THEN [node  |-> ks[i],
                  stack |-> Append(Append(Front(S), <<n, i + 1>>), <<ks[i], 1>>)]
            ELSE iterNext(T, Front(S))

\* the first resumption of river.preOrder(): it yields the root
iterStart(T) == [node |-> T.root, stack |-> << <<T.root, 1>> >>]

\* a filter that also drops the rivers of exactly count reaches
filterSmallRivers_strict(rs, count) ==
    SelectSeq(rs, LAMBDA river : lenRiver(river) > count)

\* ---------------------------------------------------------------- filterSmallRivers
\* hydrography.py:708-720
filterSmallRivers(rs, count) ==
    SelectSeq(rs, LAMBDA river : ~(lenRiver(river) < count))

\* ---------------------------------------------------------------- pruneByArea
\* a loop over the live list node.children, which skips the child that
\* follows a pruned one
RECURSIVE pruneChildren_live(_, _, _, _)
pruneChildren_live(st, cs, area, preserve_catchments) ==
    IF cs = <<>> THEN st
    ELSE LET child == Head(cs)
         IN IF prop[child].area < area
            THEN pruneChildren_live(
                    [T     |-> pruneTree(st.T, child),
                     count |-> st.count + len(st.T, child),
                     catch |-> pruneCatch(st.T, child, st.catch, preserve_catchments),
                     log   |-> Append(st.log, [node |-> child, before |-> st.T])],
                    IF Len(cs) > 1 THEN Tail(Tail(cs)) ELSE <<>>,
                    area, preserve_catchments)
            ELSE pruneChildren_live(st, Tail(cs), area, preserve_catchments)

\* hydrography.py:572-578: the loop over the copy children = node.children[:];
\* st is [T, count, catch, log]
RECURSIVE pruneChildren(_, _, _, _)
pruneChildren(st, cs, area, preserve_catchments) ==
    IF cs = <<>> THEN st
    ELSE LET child == Head(cs)
         IN IF prop[child].area < area
            THEN pruneChildren(
                    [T     |-> pruneTree(st.T, child),
                     count |-> st.count + len(st.T, child),
                     catch |-> pruneCatch(st.T, child, st.catch, preserve_catchments),
                     log   |-> Append(st.log, [node |-> child, before |-> st.T])],
                    Tail(cs), area, preserve_catchments)
            ELSE pruneChildren(st, Tail(cs), area, preserve_catchments)

\* hydrography.py:567-578: for node in river.preOrder(), the generator resumed
\* after the children of node were pruned
RECURSIVE pruneRiverByAreaLoop(_, _, _, _)
pruneRiverByAreaLoop(st, it, area, preserve_catchments) ==
    IF it.node = None THEN st
    ELSE LET st2 == pruneChildren(st, children(st.T, it.node), area,
                                  preserve_catchments)
         IN pruneRiverByAreaLoop(st2, iterNext(st2.T, it.stack), area,
                                 preserve_catchments)

\* hydrography.py:560-580; returns [T, count, catch, log], count the return value
pruneRiverByArea(T, c, lg, area, preserve_catchments) ==
    pruneRiverByAreaLoop([T |-> T, count |-> 0, catch |-> c, log |-> lg],
                         iterStart(T), area, preserve_catchments)

\* a test that also keeps the rivers one unit of area below the threshold
sufficientlyBig_loose(river, area) == prop[river.root].area + 1 >= area

\* hydrography.py:592-595: whether a river is kept
sufficientlyBig(river, area) == prop[river.root].area >= area

\* hydrography.py:583-597; st is [rivers, count, catch, log], rivers the list
\* sufficiently_big_rivers and count the number that is logged
RECURSIVE pruneByAreaLoop(_, _, _, _)
pruneByAreaLoop(st, rs, area, preserve_catchments) ==
    IF rs = <<>> THEN st
    ELSE LET river == Head(rs)
         IN IF sufficientlyBig(river, area)
            THEN LET r == pruneRiverByArea(river, st.catch, st.log, area,
                                           preserve_catchments)
                 IN pruneByAreaLoop(
                        [rivers |-> Append(st.rivers, r.T),
                         count  |-> st.count + r.count,
                         catch  |-> r.catch,
                         log    |-> r.log],
                        Tail(rs), area, preserve_catchments)
            ELSE pruneByAreaLoop(st, Tail(rs), area, preserve_catchments)

pruneByArea(rs, c, area, preserve_catchments) ==
    pruneByAreaLoop([rivers |-> <<>>, count |-> 0, catch |-> c, log |-> <<>>],
                    rs, area, preserve_catchments)

\* ---------------------------------------------------------------- divergences
\* hydrography.py:609, 643, 684: leaf.properties['DivergenceCode'] == 2
isDivergence(leaf) == prop[leaf].DivergenceCode = 2

\* a test that takes every divergence for a diversion
isDiversion_any(T, leaf) == isDivergence(leaf)

\* hydrography.py:609-611: a divergence whose upstream main path is not in the river
isDiversion(T, leaf) ==
    /\ isDivergence(leaf)
    /\ getNode(T, prop[leaf].UpstreamMainPathHydroSeq) = None

\* a test that takes every divergence for a braid
isBraid_any(T, leaf) == isDivergence(leaf)

\* hydrography.py:643-645: a divergence whose upstream main path is in the river
isBraid(T, leaf) ==
    /\ isDivergence(leaf)
    /\ getNode(T, prop[leaf].UpstreamMainPathHydroSeq) # None

\* the leaves each of the three functions acts on
actsOn(mode, T, leaf) ==
    CASE mode = "removeDiversions"  -> isDiversion(T, leaf)
      [] mode = "removeBraids"      -> isBraid(T, leaf)
      [] mode = "removeDivergences" -> isDivergence(leaf)

\* a joiner that is the first reach of the path that has a parent at all
joiner_first(T, leaf) == IF parent(T, leaf) = None THEN None ELSE leaf

\* hydrography.py:614-615 (649-650, 687-688): next(n for n in leaf.pathToRoot()
\* if n.parent is not None and len(n.parent.children) > 1); None is StopIteration
joiner(T, leaf) ==
    LET path == pathToRoot(T, leaf)
        ok(n) == parent(T, n) # None /\ Len(children(T, parent(T, n))) > 1
        hits == {i \in 1..Len(path) : ok(path[i])}
    IN IF hits = {} THEN None
       ELSE path[CHOOSE i \in hits : \A j \in hits : i <= j]

\* what the three functions do when a leaf they act on has no joiner:
\* hydrography.py:616-620 and 689-693 drop the river, 651-652 is assert (False)
noJoiner(mode) == IF mode = "removeBraids" THEN "raise" ELSE "drop"

\* hydrography.py:608-624, 642-657, 683-697: for leaf in river.leaf_nodes(), the
\* generator resumed after each prune; st is
\* [T, keep, raised, tribs, reaches, catch, log]
RECURSIVE leafLoop(_, _, _, _)
leafLoop(mode, st, it, preserve_catchments) ==
    IF it.node = None THEN st
    ELSE LET leaf == it.node
         IN IF children(st.T, leaf) = <<>> /\ actsOn(mode, st.T, leaf)
            THEN LET j == joiner(st.T, leaf)
                 IN IF j = None
                    THEN [st EXCEPT
                            !.keep = (noJoiner(mode) # "drop"),
                            !.raised = (noJoiner(mode) = "raise"),
                            !.log = Append(@, [leaf |-> leaf, joiner |-> None,
                                               before |-> st.T, after |-> st.T])]
                    ELSE LET T2 == pruneTree(st.T, j)
                         IN leafLoop(mode,
                               [st EXCEPT
                                  !.T = T2,
                                  !.tribs = @ + 1,
                                  !.reaches = @ + len(st.T, j),
                                  !.catch = pruneCatch(st.T, j, @, preserve_catchments),
                                  !.log = Append(@, [leaf |-> leaf, joiner |-> j,
                                                     before |-> st.T, after |-> T2])],
                               iterNext(T2, it.stack), preserve_catchments)
            ELSE leafLoop(mode, st, iterNext(st.T, it.stack), preserve_catchments)

\* one river of removeDiversions, removeBraids or removeDivergences
removeRiver(mode, T, c, lg, preserve_catchments) ==
    leafLoop(mode,
             [T |-> T, keep |-> TRUE, raised |-> FALSE, tribs |-> 0,
              reaches |-> 0, catch |-> c, log |-> lg],
             iterStart(T), preserve_catchments)

\* for river in rivers; st is [out, all, raised, catch, log]: out the list that
\* is returned, all the rivers of the caller's list as they are left in place
RECURSIVE removeLoop(_, _, _, _)
removeLoop(mode, st, rs, preserve_catchments) ==
    IF rs = <<>> \/ st.raised THEN [st EXCEPT !.all = @ \o rs]
    ELSE LET r == removeRiver(mode, Head(rs), st.catch, st.log, preserve_catchments)
         IN removeLoop(mode,
               [out    |-> IF r.keep /\ ~r.raised THEN Append(st.out, r.T) ELSE st.out,
                all    |-> Append(st.all, r.T),
                raised |-> r.raised,
                catch  |-> r.catch,
                log    |-> r.log],
               Tail(rs), preserve_catchments)

removeStart(c) ==
    [out |-> <<>>, all |-> <<>>, raised |-> FALSE, catch |-> c, log |-> <<>>]

\* hydrography.py:600-632
removeDiversions(rs, c, preserve_catchments) ==
    removeLoop("removeDiversions", removeStart(c), rs, preserve_catchments)

\* hydrography.py:635-662; it returns the list rivers it was given
removeBraids(rs, c, preserve_catchments) ==
    removeLoop("removeBraids", removeStart(c), rs, preserve_catchments)

\* hydrography.py:665-705
removeDivergences(rs, c, preserve_catchments) ==
    removeLoop("removeDivergences", removeStart(c), rs, preserve_catchments)

\* ---------------------------------------------------------------- geometry
\* A point is <<x, y>>, a LineString a sequence of points.
sq(a) == a * a

\* the square of the distance of two points
dist2(a, b) == sq(a[1] - b[1]) + sq(a[2] - b[2])

\* the squares of distances that occur
D2s == 0..400

RECURSIVE isqrtFrom(_, _)
isqrtFrom(v, r) == IF sq(r + 1) > v THEN r ELSE isqrtFrom(v, r + 1)

\* 100 * sqrt(d), rounded down: distances are kept in hundredths of the unit
sqrt100 == [d \in D2s |-> isqrtFrom(10000 * d, 100 * isqrtFrom(d, 0))]

\* LineString.length, in hundredths
length100(line) ==
    SumSeq([i \in 1..(Len(line) - 1) |-> sqrt100[dist2(line[i], line[i + 1])]])

\* line.length < tol and line.length > tol
shorter(line, tol) == length100(line) < 100 * tol
longer(line, tol) == length100(line) > 100 * tol

\* The distance of point q to the piece a-b, as a fraction <<num, den>> of
\* squares: the foot of the perpendicular when it falls inside the piece, the
\* nearer end otherwise.
pieceDist2(q, a, b) ==
    LET t  == (q[1] - a[1]) * (b[1] - a[1]) + (q[2] - a[2]) * (b[2] - a[2])
        l2 == dist2(a, b)
        cr == (q[1] - a[1]) * (b[2] - a[2]) - (q[2] - a[2]) * (b[1] - a[1])
    IN IF l2 = 0 \/ t <= 0 THEN <<dist2(q, a), 1>>
       ELSE IF t >= l2 THEN <<dist2(q, b), 1>>
       ELSE <<sq(cr), l2>>

\* fractions of non-negative numerator and positive denominator
fracLess(f, g) == f[1] * g[2] < g[1] * f[2]

\* LineString.simplify(tol) (Douglas-Peucker): the interior point farthest
\* from the chord is kept when it is farther than tol, and the two halves are
\* simplified in turn; otherwise only the two ends are kept
RECURSIVE simplifyLine(_, _)
simplifyLine(line, tol) ==
    IF Len(line) <= 2 THEN line
    ELSE LET a == line[1]
             b == line[Len(line)]
             d(i) == pieceDist2(line[i], a, b)
             I == 2..(Len(line) - 1)
             far == CHOOSE i \in I :
                       /\ \A j \in I : ~fracLess(d(i), d(j))
                       /\ \A j \in I : j < i => fracLess(d(j), d(i))
         IN IF fracLess(<<sq(tol), 1>>, d(far))
            THEN Front(simplifyLine(SubSeq(line, 1, far), tol))
                   \o simplifyLine(SubSeq(line, far, Len(line)), tol)
            ELSE <<a, b>>

\* node.moveCoordinate(-1, xy)
moveCoordinate(line, xy) == [line EXCEPT ![Len(line)] = xy]

\* ---------------------------------------------------------------- continuity
\* river.is_continuous(): the last coordinate of every child is the first
\* coordinate of its parent
is_continuous(T, sg) ==
    \A n \in Nodes(T) :
        \A i \in 1..Len(children(T, n)) :
            Last(sg[children(T, n)[i]]) = sg[n][1]

\* river.is_consistent()
is_consistent(T, sg) == is_continuous(T, sg)

\* ---------------------------------------------------------------- simplify
\* hydrography.py:744-751; the two asserts hold of every simplification, which
\* keeps the ends of a line
simplify(T, sg, tol) ==
    [n \in DOMAIN sg |-> IF n \in Nodes(T) THEN simplifyLine(sg[n], tol) ELSE sg[n]]

\* hydrography.py:527-528: for tree in rivers
RECURSIVE simplifyLoop(_, _, _, _)
simplifyLoop(rs, sg, k, tol) ==
    IF k > Len(rs) THEN sg ELSE simplifyLoop(rs, simplify(rs[k], sg, tol), k + 1, tol)

\* ---------------------------------------------------------------- merge
\* hydrography.py:735-738: for sibling in node.siblings(), a generator over the
\* live list node.parent.children that passes over node; st is [T, seg]
RECURSIVE siblingLoop(_, _, _, _)
siblingLoop(st, node, P, i) ==
    LET ks == children(st.T, P)
    IN IF i > Len(ks) THEN st
       ELSE IF ks[i] = node THEN siblingLoop(st, node, P, i + 1)
       ELSE LET sibling == ks[i]
            IN siblingLoop(
                  [T   |-> [root |-> st.T.root,
                            kids |-> [st.T.kids EXCEPT
                                         ![P] = Remove(@, sibling),
                                         ![node] = Append(@, sibling)]],
                   seg |-> [st.seg EXCEPT
                              ![sibling] = moveCoordinate(@, st.seg[node][1])]],
                  node, P, i + 1)

\* node.merge(): the parent's segment is extended by the node's, the node
\* leaves the tree and its children become children of the parent
mergeNode(T, node) ==
    LET P == parent(T, node)
    IN [root |-> T.root,
        kids |-> [m \in Nodes(T) \ {node} |->
                     IF m = P THEN Remove(T.kids[P], node) \o T.kids[node]
                     ELSE T.kids[m]]]

\* hydrography.py:730: the reaches that merge() splices out
isShortInner(T, sg, node, tol) ==
    shorter(sg[node], tol) /\ parent(T, node) # None

\* hydrography.py:729-741: for node in list(river.preOrder());
\* st is [T, seg, catch, raised, log]
RECURSIVE mergeLoop(_, _, _)
mergeLoop(st, nodes, tol) ==
    IF nodes = <<>> \/ st.raised THEN st
    ELSE LET node == Head(nodes)
         IN IF isShortInner(st.T, st.seg, node, tol)
            THEN LET P  == parent(st.T, node)
                     s2 == siblingLoop([T |-> st.T, seg |-> st.seg], node, P, 1)
                 IN IF children(s2.T, P) # <<node>>
                    THEN [st EXCEPT !.T = s2.T, !.seg = s2.seg, !.raised = TRUE,
                                    !.log = Append(@, [asserted |-> node,
                                                       before |-> st.T,
                                                       moved |-> s2.T])]
                    ELSE mergeLoop(
                           [T      |-> mergeNode(s2.T, node),
                            seg    |-> [s2.seg EXCEPT
                                          ![P] = Front(s2.seg[node]) \o @],
                            catch  |-> [st.catch EXCEPT ![P] = @ \cup st.catch[node]],
                            raised |-> FALSE,
                            log    |-> Append(st.log,
                                         [merged |-> node, before |-> st.T,
                                          moved |-> s2.T,
                                          segment |-> st.seg[node]])],
                           Tail(nodes), tol)
            ELSE mergeLoop(st, Tail(nodes), tol)

\* hydrography.py:723-741
merge(st, tol) == mergeLoop(st, preOrder(st.T, st.T.root), tol)

\* ---------------------------------------------------------------- pruneBySegmentLength
\* hydrography.py:553-557: for leaf in tree.leaf_nodes(), the generator resumed
\* after each prune; the prune of a root, which has no parent to leave, raises
RECURSIVE pruneLeafLoop(_, _, _, _)
pruneLeafLoop(st, it, prune_tol, preserve_catchments) ==
    IF it.node = None THEN st
    ELSE LET leaf == it.node
         IN IF children(st.T, leaf) = <<>> /\ shorter(st.seg[leaf], prune_tol)
            THEN IF parent(st.T, leaf) = None
                 THEN [st EXCEPT !.raised = TRUE]
                 ELSE LET T2 == pruneTree(st.T, leaf)
                      IN pruneLeafLoop(
                            [st EXCEPT
                               !.T = T2,
                               !.catch = pruneCatch(st.T, leaf, @, preserve_catchments),
                               !.log = Append(@, [pruned |-> leaf, before |-> st.T])],
                            iterNext(T2, it.stack), prune_tol, preserve_catchments)
            ELSE pruneLeafLoop(st, iterNext(st.T, it.stack), prune_tol,
                               preserve_catchments)

\* hydrography.py:551-557
pruneBySegmentLength(st, prune_tol, preserve_catchments) ==
    pruneLeafLoop(st, iterStart(st.T), prune_tol, preserve_catchments)

\* ---------------------------------------------------------------- cleanup
cleanTree_always(st, prune_tol, merge_tol, preserve_catchments) ==
    LET merged(m) ==
            IF ~m.raised /\ prune_tol # None
            THEN pruneBySegmentLength(m, prune_tol, preserve_catchments)
            ELSE m
    IN merged(IF merge_tol # None THEN merge(st, merge_tol) ELSE st)

\* hydrography.py:536-539: one tree of the loop; st is [T, seg, catch, raised, log]
cleanTree(st, prune_tol, merge_tol, preserve_catchments) ==
    LET merged(m) ==
            IF ~m.raised /\ merge_tol # prune_tol /\ prune_tol # None
            THEN pruneBySegmentLength(m, prune_tol, preserve_catchments)
            ELSE m
    IN merged(IF merge_tol # None THEN merge(st, merge_tol) ELSE st)

\* hydrography.py:535-539: for tree in rivers; w is [rivers, seg, catch, raised, log]
RECURSIVE cleanLoop(_, _, _, _, _)
cleanLoop(w, k, prune_tol, merge_tol, preserve_catchments) ==
    IF k > Len(w.rivers) \/ w.raised THEN w
    ELSE LET next(r) ==
                 cleanLoop([rivers |-> [w.rivers EXCEPT ![k] = r.T], seg |-> r.seg,
                            catch |-> r.catch, raised |-> r.raised, log |-> r.log],
                           k + 1, prune_tol, merge_tol, preserve_catchments)
         IN next(cleanTree([T |-> w.rivers[k], seg |-> w.seg, catch |-> w.catch,
                            raised |-> FALSE, log |-> w.log],
                           prune_tol, merge_tol, preserve_catchments))

allContinuous_unchecked(rs, sg) == TRUE

\* hydrography.py:530-532 and 541: the asserts on the rivers
allContinuous(rs, sg) ==
    \A k \in 1..Len(rs) : is_consistent(rs[k], sg) /\ is_continuous(rs[k], sg)

allLonger_unchecked(rs, sg, prune_tol, merge_tol) == TRUE

\* hydrography.py:543-548: the assert on the lengths
allLonger(rs, sg, prune_tol, merge_tol) ==
    LET tols == {prune_tol, merge_tol} \ {None}
    IN tols # {} =>
          LET tol == CHOOSE t \in tols : \A u \in tols : t <= u
          IN \A k \in 1..Len(rs) : \A r \in Nodes(rs[k]) : longer(sg[r], tol)

\* hydrography.py:518-548; w is [rivers, seg, catch, raised, log]; a failed
\* assert raises and leaves the rivers as they are then
cleanup(w, simp_tol, prune_tol, merge_tol, preserve_catchments) ==
    LET checked(w2) ==
            IF w2.raised THEN w2
            ELSE IF ~allContinuous(w2.rivers, w2.seg)
            THEN [w2 EXCEPT !.raised = TRUE]
            ELSE IF ~allLonger(w2.rivers, w2.seg, prune_tol, merge_tol)
            THEN [w2 EXCEPT !.raised = TRUE]
            ELSE w2
        simplified(w1) ==
            IF ~allContinuous(w1.rivers, w1.seg) THEN [w1 EXCEPT !.raised = TRUE]
            ELSE checked(cleanLoop(w1, 1, prune_tol, merge_tol, preserve_catchments))
    IN simplified(IF simp_tol # None
                  THEN [w EXCEPT !.seg = simplifyLoop(w.rivers, w.seg, 1, simp_tol)]
                  ELSE w)

\* ---------------------------------------------------------------- lines that meet
\* Coordinates are whole numbers of units. A point the code would compute
\* between them is reported as off the grid (kind "off"), and the operations
\* are only followed on inputs that stay on the grid.
noPoint == [kind |-> "none", p |-> <<0, 0>>]
offGrid == [kind |-> "off", p |-> <<0, 0>>]
at(q) == [kind |-> "point", p |-> q]

Min(a, b) == IF a <= b THEN a ELSE b
Max(a, b) == IF a >= b THEN a ELSE b
sgn(x) == IF x > 0 THEN 1 ELSE IF x < 0 THEN 0 - 1 ELSE 0

\* twice the signed area of the triangle o, a, b
cross(o, a, b) == (a[1] - o[1]) * (b[2] - o[2]) - (a[2] - o[2]) * (b[1] - o[1])

\* q lies on the piece a-b
onPiece(q, a, b) ==
    /\ cross(a, b, q) = 0
    /\ Min(a[1], b[1]) <= q[1] /\ q[1] <= Max(a[1], b[1])
    /\ Min(a[2], b[2]) <= q[2] /\ q[2] <= Max(a[2], b[2])

\* a + (b - a) * num / den, when that is a point of the grid
along(a, b, num, den) ==
    IF ((b[1] - a[1]) * num) % den = 0 /\ ((b[2] - a[2]) * num) % den = 0
    THEN at(<<a[1] + ((b[1] - a[1]) * num) \div den,
              a[2] + ((b[2] - a[2]) * num) \div den>>)
    ELSE offGrid

\* the point in which the pieces a-b and c-d meet; pieces that overlap along
\* a stretch are off the grid of this model
pieceMeet(a, b, c, d) ==
    LET d1 == cross(c, d, a)
        d2 == cross(c, d, b)
        d3 == cross(a, b, c)
        d4 == cross(a, b, d)
        S  == {q \in {a, b} : onPiece(q, c, d)} \cup {q \in {c, d} : onPiece(q, a, b)}
    IN IF S # {}
       THEN IF Cardinality(S) = 1 THEN at(CHOOSE q \in S : TRUE) ELSE offGrid
       ELSE IF sgn(d1) * sgn(d2) < 0 /\ sgn(d3) * sgn(d4) < 0
       THEN IF d1 - d2 > 0 THEN along(a, b, d1, d1 - d2)
            ELSE along(a, b, 0 - d1, d2 - d1)
       ELSE noPoint

\* the meetings of the pieces of two lines
meetings(l1, l2) ==
    {pieceMeet(l1[i], l1[i + 1], l2[j], l2[j + 1]) :
        i \in 1..(Len(l1) - 1), j \in 1..(Len(l2) - 1)}

\* seg.intersects(r): the lines share a point, be it only a touch
intersects(l1, l2) == \E m \in meetings(l1, l2) : m.kind # "none"

offGridMeet(l1, l2) == \E m \in meetings(l1, l2) : m.kind = "off"

\* utils.close(p, q, tol) of two coordinates
close(a, b, tol) == dist2(a, b) < sq(tol)

\* utils.cut(line, cutline, tol): line is cut where cutline meets it, at a
\* vertex of line where one is within tol of the meeting and at a new vertex
\* otherwise; a meeting at an end of line cuts nothing off. The places to cut
\* at are <<i, q>>: the point q on the piece from line[i] (q = line[i]: the
\* vertex itself).
cutPlaces(line, cutline, tol) ==
    LET X == {m.p : m \in {m \in meetings(line, cutline) : m.kind = "point"}}
        near(x) == {i \in 1..Len(line) : close(x, line[i], tol)}
        place(x) ==
            IF near(x) # {}
            THEN LET i == CHOOSE i \in near(x) :
                            \A j \in near(x) :
                               \/ dist2(x, line[i]) < dist2(x, line[j])
                               \/ dist2(x, line[i]) = dist2(x, line[j]) /\ i <= j
                 IN <<i, line[i]>>
            ELSE LET i == CHOOSE i \in 1..(Len(line) - 1) :
                            /\ onPiece(x, line[i], line[i + 1])
                            /\ \A j \in 1..(i - 1) : ~onPiece(x, line[j], line[j + 1])
                 IN <<i, x>>
    IN {place(x) : x \in X} \ {<<1, line[1]>>, <<Len(line), Last(line)>>}

cut(line, cutline, tol) ==
    LET pieces(C) ==
            IF C = {} THEN <<line>>
            ELSE IF Cardinality(C) = 1
            THEN LET c == CHOOSE c \in C : TRUE
                     i == c[1]
                     q == c[2]
                 IN IF q = line[i]
                    THEN <<SubSeq(line, 1, i), SubSeq(line, i, Len(line))>>
                    ELSE <<Append(SubSeq(line, 1, i), q),
                           <<q>> \o SubSeq(line, i + 1, Len(line))>>
            ELSE [k \in 1..(Cardinality(C) + 1) |-> line]
    IN pieces(cutPlaces(line, cutline, tol))

\* ---------------------------------------------------------------- SplitHUCs
\* hucs.segments maps a handle to a line; hucs.boundaries and
\* hucs.intersections are components, each a list of handles; hucs.gons lists,
\* per polygon, its boundary components b and its intersection components i.
handlesOf(h, g) ==
    Flatten([k \in 1..Len(g.b) |-> h.boundaries[g.b[k]]])
      \o Flatten([k \in 1..Len(g.i) |-> h.intersections[g.i[k]]])

\* the segments of a polygon form one closed ring: every end of a segment is
\* the end of exactly one other, and all segments hang together
isRing(h, hs) ==
    LET K == 1..Len(hs)
        line(k) == h.segments[hs[k]]
        ends == {<<k, e>> : k \in K, e \in {0, 1}}
        pt(x) == IF x[2] = 0 THEN line(x[1])[1] ELSE Last(line(x[1]))
    IN /\ hs # <<>>
       /\ \A x \in ends : Cardinality({y \in ends : pt(y) = pt(x)}) = 2
       /\ \A S \in (SUBSET K) \ {{}, K} :
             \E j \in S, k \in K \ S, e \in {0, 1}, f \in {0, 1} :
                pt(<<j, e>>) = pt(<<k, f>>)

\* list(hucs.polygons()) does not raise
polygons(h) == \A g \in 1..Len(h.gons) : isRing(h, handlesOf(h, h.gons[g]))

\* the pieces of the boundary of hucs.exterior()
exteriorPieces(h) ==
    LET hs == Flatten(h.boundaries)
    IN UNION {{<<h.segments[hs[k]][i], h.segments[hs[k]][i + 1]>> :
                 i \in 1..(Len(h.segments[hs[k]]) - 1)} : k \in 1..Len(hs)}

\* q lies strictly inside hucs.exterior(): it is on no piece of the boundary
\* and a ray from q to the right crosses the boundary an odd number of times
interior(h, q) ==
    LET E == exteriorPieces(h)
        hit(e) ==
            LET a == e[1]
                b == e[2]
            IN /\ (a[2] > q[2]) # (b[2] > q[2])
               /\ IF b[2] > a[2] THEN cross(a, b, q) > 0 ELSE cross(a, b, q) < 0
    IN /\ \A e \in E : ~onPiece(q, e[1], e[2])
       /\ Cardinality({e \in E : hit(e)}) % 2 = 1

\* hucs.exterior().contains(Point(q))
contains(h, q) == interior(h, q)

\* hucs.exterior().buffer(-tol).contains(Point(q)): inside and farther than
\* tol from the boundary
containsBuffered(h, q, tol) ==
    /\ interior(h, q)
    /\ \A e \in exteriorPieces(h) : fracLess(<<sq(tol), 1>>, pieceDist2(q, e[1], e[2]))

\* ---------------------------------------------------------------- snap_polygon_endpoints
\* river.leaves(): the reaches without children
leaves(T) == {n \in Nodes(T) : children(T, n) = <<>>}

\* a kd-tree of the ends of the rivers alone, coords[-1] of every root and
\* coords[0] of every leaf
treeCoords_ends(rs, sg) ==
    UNION {{Last(sg[rs[k].root])} \cup {sg[n][1] : n \in leaves(rs[k])} :
             k \in 1..Len(rs)}

\* hydrography.py:285-287: the points of the kd-tree, coords[-1] of every
\* reach and coords[0] of every leaf
treeCoords(rs, sg) ==
    UNION {{Last(sg[n]) : n \in Nodes(rs[k])} \cup {sg[n][1] : n \in leaves(rs[k])} :
             k \in 1..Len(rs)}

lexLess(a, b) == a[1] < b[1] \/ (a[1] = b[1] /\ a[2] < b[2])

\* kdtree.query(q): a nearest point; which one of several at the same
\* distance is not determined, and first says whether it is the first or the
\* last of them in the order of the coordinates
query(P, q, first) ==
    LET N == {c \in P : \A d \in P : dist2(q, c) <= dist2(q, d)}
    IN CHOOSE c \in N :
          \A d \in N \ {c} : IF first THEN lexLess(c, d) ELSE lexLess(d, c)

\* hydrography.py:317-327: an end of a segment moves to the nearest point of
\* the rivers if that is nearer than tol
snapped(P, q, tol, first) ==
    IF dist2(q, query(P, q, first)) < sq(tol) THEN query(P, q, first) ELSE q

snap_polygon_endpoints_all(h, rs, sg, tol, first) ==
    [k \in 1..Len(h.segments) |->
        [i \in 1..Len(h.segments[k]) |->
            snapped(treeCoords(rs, sg), h.segments[k][i], tol, first)]]

\* hydrography.py:282-332; the new hucs.segments
snap_polygon_endpoints(h, rs, sg, tol, first) ==
    LET P == treeCoords(rs, sg)
    IN [k \in 1..Len(h.segments) |->
          LET line == h.segments[k]
          IN [i \in 1..Len(line) |->
                IF i = 1 \/ i = Len(line)
                THEN snapped(P, line[i], tol, first) ELSE line[i]]]

\* ---------------------------------------------------------------- snap_endpoints
\* utils.in_neighborhood(Point(q), line, tol): q is within tol of the box
\* around line
in_neighborhood(q, line, tol) ==
    /\ \E i \in 1..Len(line) : line[i][1] - tol <= q[1]
    /\ \E i \in 1..Len(line) : q[1] <= line[i][1] + tol
    /\ \E i \in 1..Len(line) : line[i][2] - tol <= q[2]
    /\ \E i \in 1..Len(line) : q[2] <= line[i][2] + tol

\* the first piece of line that is nearest to q
nearestPiece(q, line) ==
    LET K == 1..(Len(line) - 1)
        d(k) == pieceDist2(q, line[k], line[k + 1])
    IN CHOOSE k \in K : /\ \A j \in K : ~fracLess(d(j), d(k))
                        /\ \A j \in K : j < k => fracLess(d(k), d(j))

\* the point of the piece a-b nearest to q
footOn(a, b, q) ==
    LET t == (q[1] - a[1]) * (b[1] - a[1]) + (q[2] - a[2]) * (b[2] - a[2])
        l2 == dist2(a, b)
    IN IF l2 = 0 \/ t <= 0 THEN at(a)
       ELSE IF t >= l2 THEN at(b)
       ELSE along(a, b, t, l2)

\* utils.nearest_point(line, q): the point of line nearest to q
nearest_point(line, q) ==
    LET foot(k) == footOn(line[k], line[k + 1], q)
    IN foot(nearestPiece(q, line))

\* hydrography.py:335-351
closest_point(point, line, tol) ==
    IF in_neighborhood(point, line, tol)
    THEN LET within(dist) ==
                 IF fracLess(dist, <<sq(tol), 1>>)
                 THEN IF dist[1] = 0 /\ \E i \in 1..Len(line) : close(point, line[i], Tol)
                      THEN noPoint
                      ELSE nearest_point(line, point)
                 ELSE noPoint
             nearest(k) == within(pieceDist2(point, line[k], line[k + 1]))
         IN nearest(nearestPiece(point, line))
    ELSE noPoint

\* hydrography.py:380-387 and 416-423: new_coord moves onto the vertex of
\* seg nearest to it when that is nearer than tol
ontoVertex(line, new_coord, tol) ==
    LET I == 1..Len(line)
        i == CHOOSE i \in I :
                /\ \A j \in I : dist2(new_coord, line[i]) <= dist2(new_coord, line[j])
                /\ \A j \in I : j < i => dist2(new_coord, line[j]) > dist2(new_coord, line[i])
    IN IF dist2(new_coord, line[i]) < sq(tol) THEN line[i] ELSE new_coord

\* hydrography.py:390-395: the points nearer to new_coord than the end of
\* the reach are dropped and the end is moved
RECURSIVE moveFirst(_, _)
moveFirst(coords, new_coord) ==
    IF Len(coords) > 2 /\ dist2(new_coord, coords[2]) < dist2(new_coord, coords[1])
    THEN moveFirst(Tail(coords), new_coord)
    ELSE [coords EXCEPT ![1] = new_coord]

\* hydrography.py:426-431
RECURSIVE moveLast(_, _)
moveLast(coords, new_coord) ==
    IF /\ Len(coords) > 2
       /\ dist2(new_coord, coords[Len(coords) - 1]) < dist2(new_coord, Last(coords))
    THEN moveLast(Front(coords), new_coord)
    ELSE [coords EXCEPT ![Len(coords)] = new_coord]

\* the components in the order of itertools.chain(hucs.boundaries.items(),
\* hucs.intersections.items())
components(h) ==
    [k \in 1..Len(h.boundaries) |-> <<"boundaries", k>>]
      \o [k \in 1..Len(h.intersections) |-> <<"intersections", k>>]

component(h, c) == IF c[1] = "boundaries" THEN h.boundaries[c[2]] ELSE h.intersections[c[2]]

\* hydrography.py:366-399 (endpoint 0) and 402-435 (endpoint -1): the first
\* segment of the component that the end of the reach is close to;
\* st is [seg, to_add, off]
RECURSIVE snapStage(_, _, _, _, _, _, _)
snapStage(st, h, node, c, endpoint, k, tol) ==
    IF k > Len(component(h, c)) THEN st
    ELSE LET seg_handle == component(h, c)[k]
             river == st.seg[node]
             moved(q) ==
                 [st EXCEPT
                    !.seg[node] = IF endpoint = 0 THEN moveFirst(river, q)
                                  ELSE moveLast(river, q),
                    !.to_add = Append(@, [seg_handle |-> seg_handle, component |-> c,
                                          endpoint |-> endpoint, node |-> node])]
             found(new_coord) ==
                 IF new_coord.kind = "off" THEN [st EXCEPT !.off = TRUE]
                 ELSE IF new_coord.kind = "none"
                 THEN snapStage(st, h, node, c, endpoint, k + 1, tol)
                 ELSE moved(ontoVertex(h.segments[seg_handle], new_coord.p, tol))
         IN found(closest_point(IF endpoint = 0 THEN river[1] ELSE Last(river),
                                h.segments[seg_handle], tol))

\* hydrography.py:361-363: for node in tree.preOrder(), for component in the
\* chain of components
RECURSIVE snapComponents(_, _, _, _, _)
snapComponents(st, h, node, cs, tol) ==
    IF cs = <<>> \/ st.off THEN st
    ELSE LET last(s0) == IF s0.off THEN s0
                         ELSE snapStage(s0, h, node, Head(cs), 1, 1, tol)
         IN snapComponents(last(snapStage(st, h, node, Head(cs), 0, 1, tol)),
                           h, node, Tail(cs), tol)

RECURSIVE snapNodes(_, _, _, _)
snapNodes(st, h, nodes, tol) ==
    IF nodes = <<>> \/ st.off THEN st
    ELSE snapNodes(snapComponents(st, h, Head(nodes), components(h), tol),
                   h, Tail(nodes), tol)

\* p.segment.coords[endpoint] of a pending insertion, read when it is used
endCoord(sg, x) == IF x.endpoint = 0 THEN sg[x.node][1] ELSE Last(sg[x.node])

\* hydrography.py:438-442: the handles of to_add_dict in the order of their
\* first insertion
RECURSIVE handlesIn(_, _)
handlesIn(to_add, seen) ==
    IF to_add = <<>> THEN <<>>
    ELSE IF Head(to_add).seg_handle \in seen THEN handlesIn(Tail(to_add), seen)
    ELSE <<Head(to_add).seg_handle>>
           \o handlesIn(Tail(to_add), seen \cup {Head(to_add).seg_handle})

\* hydrography.py:445-459: the insertions at one segment without those at a
\* coordinate that is pending already; equal() asserts that the two are of
\* one component; r is [list, raised]
RECURSIVE dedupe(_, _, _)
dedupe(r, insert_list, sg) ==
    IF insert_list = <<>> \/ r.raised THEN r
    ELSE LET p1 == Head(insert_list)
             same == {i \in 1..Len(r.list) : endCoord(sg, r.list[i]) = endCoord(sg, p1)}
         IN IF same = {}
            THEN dedupe([r EXCEPT !.list = Append(@, p1)], Tail(insert_list), sg)
            ELSE IF \E i \in same : r.list[i].component # p1.component
            THEN [r EXCEPT !.raised = TRUE]
            ELSE dedupe(r, Tail(insert_list), sg)

\* how far along the piece a-b the point of it nearest to q lies, in hundredths
projectOn(a, b, q) ==
    LET t == (q[1] - a[1]) * (b[1] - a[1]) + (q[2] - a[2]) * (b[2] - a[2])
        l2 == dist2(a, b)
    IN IF l2 = 0 \/ t <= 0 THEN 0
       ELSE IF t >= l2 THEN sqrt100[l2]
       ELSE (t * sqrt100[l2]) \div l2

\* seg.project(Point(q)): how far along line the point of line nearest to q
\* lies, in hundredths
project100(line, q) ==
    LET on(k) == length100(SubSeq(line, 1, k)) + projectOn(line[k], line[k + 1], q)
    IN on(nearestPiece(q, line))

\* sorted(..., key): Python's sort keeps the order of items of equal keys
RECURSIVE insertByKey(_, _)
insertByKey(sorted, x) ==
    IF sorted = <<>> THEN <<x>>
    ELSE IF Last(sorted).key <= x.key THEN Append(sorted, x)
    ELSE Append(insertByKey(Front(sorted), x), Last(sorted))

RECURSIVE sortedByKey(_)
sortedByKey(items) ==
    IF items = <<>> THEN <<>>
    ELSE insertByKey(sortedByKey(Front(items)), Last(items))

\* hydrography.py:469-475 and 481-487: the new coordinates, flagged 1, and the
\* old ones that are not within tol of a new one, sorted along the segment
sortedCoords(line, old, new, tol) ==
    LET item(c, f) == [c |-> c, f |-> f, key |-> project100(line, c)]
        kept == SelectSeq(old, LAMBDA c : \A i \in 1..Len(new) : ~close(c, new[i], tol))
    IN sortedByKey([i \in 1..Len(new) |-> item(new[i], 1)]
                     \o [i \in 1..Len(kept) |-> item(kept[i], 0)])

breakpoints(cs) == SortedSeq({i \in 1..Len(cs) : cs[i].f = 1})

\* hydrography.py:489-494: a closed segment starts anew at its first new
\* coordinate, which ends it, too
rotated(cs) ==
    LET b0 == breakpoints(cs)[1]
        r == SubSeq(cs, b0, Len(cs)) \o SubSeq(cs, 1, b0)
    IN [i \in 1..Len(r) |-> IF i = 1 \/ i = Len(r) THEN [r[i] EXCEPT !.f = 0] ELSE r[i]]

\* hydrography.py:462-508: the segments a segment is broken into at the
\* coordinates new; raised when an assert fails
new_segs(line, new, tol) ==
    LET closed == close(line[1], Last(line), Tol)
        broken(cs) ==
            LET bs == breakpoints(cs)
                cuts == <<1>> \o bs \o <<Len(cs)>>
            IN IF \/ (bs # <<>> /\ bs[1] = 1)
                  \/ ~((IF bs = <<>> THEN 1 ELSE Last(bs)) < Len(cs))
               THEN [raised |-> TRUE, segs |-> <<>>]
               ELSE [raised |-> FALSE,
                     segs |-> [j \in 1..(Len(cuts) - 1) |->
                                 [i \in 1..(cuts[j + 1] - cuts[j] + 1) |->
                                     cs[cuts[j] + i - 1].c]]]
        turned(cs) == broken(IF closed THEN rotated(cs) ELSE cs)
    IN turned(sortedCoords(line, IF closed THEN Front(line) ELSE line, new, tol))

\* the history of the splits of segments: hucs.splits lists, for every
\* segment that was replaced by its pieces, the handle, the pieces and the
\* segments and components before and after
store(h) ==
    [segments |-> h.segments, boundaries |-> h.boundaries,
     intersections |-> h.intersections]

split(h, seg_handle, segs, h2) ==
    [h2 EXCEPT !.splits = Append(@, [seg_handle |-> seg_handle, segs |-> segs,
                                     reach |-> None,
                                     before |-> store(h), after |-> store(h2)])]

addSegs_outer(h, seg_handle, c, segs) ==
    LET n == Len(h.segments)
        new_handles == [j \in 1..(Len(segs) - 1) |-> n + j]
    IN split(h, seg_handle, segs,
             [h EXCEPT
                !.segments = [@ EXCEPT ![seg_handle] = segs[1]] \o Tail(segs),
                !.boundaries = [@ EXCEPT ![1] = @ \o new_handles]])

\* hydrography.py:511-513: the first new segment takes the handle, the others
\* new handles, which join the component of the first insertion
addSegs(h, seg_handle, c, segs) ==
    LET n == Len(h.segments)
        new_handles == [j \in 1..(Len(segs) - 1) |-> n + j]
    IN split(h, seg_handle, segs,
             [h EXCEPT
                !.segments = [@ EXCEPT ![seg_handle] = segs[1]] \o Tail(segs),
                !.boundaries = IF c[1] = "boundaries"
                               THEN [@ EXCEPT ![c[2]] = @ \o new_handles] ELSE @,
                !.intersections = IF c[1] = "intersections"
                                  THEN [@ EXCEPT ![c[2]] = @ \o new_handles] ELSE @])

\* hydrography.py:462-513: for seg_handle, insert_list in to_add_dict2.items();
\* w is [hucs, raised]
RECURSIVE insertLoop(_, _, _, _, _)
insertLoop(w, hs, to_add, sg, tol) ==
    IF hs = <<>> \/ w.raised THEN w
    ELSE LET seg_handle == Head(hs)
             added(insert_list, r) ==
                 IF r.raised THEN [w EXCEPT !.raised = TRUE]
                 ELSE insertLoop(
                        [w EXCEPT !.hucs = addSegs(@, seg_handle,
                                                   insert_list[1].component, r.segs)],
                        Tail(hs), to_add, sg, tol)
             inserting(insert_list) ==
                 added(insert_list,
                       new_segs(w.hucs.segments[seg_handle],
                                [i \in 1..Len(insert_list) |->
                                    endCoord(sg, insert_list[i])],
                                tol))
         IN inserting(dedupe([list |-> <<>>, raised |-> FALSE],
                             SelectSeq(to_add, LAMBDA x : x.seg_handle = seg_handle),
                             sg).list)

\* an assert of equal() fails for some segment (hydrography.py:445-459)
dedupeRaises(to_add, sg) ==
    \E hd \in {to_add[i].seg_handle : i \in 1..Len(to_add)} :
        dedupe([list |-> <<>>, raised |-> FALSE],
               SelectSeq(to_add, LAMBDA x : x.seg_handle = hd), sg).raised

\* hydrography.py:354-515; the result is [seg, hucs, raised, off]
snap_endpoints(T, sg, h, tol) ==
    LET inserted(st, w) ==
            [seg |-> st.seg, hucs |-> w.hucs, raised |-> w.raised, off |-> FALSE]
        moved(st) ==
            IF st.off THEN [seg |-> st.seg, hucs |-> h, raised |-> FALSE, off |-> TRUE]
            ELSE IF dedupeRaises(st.to_add, st.seg)
            THEN [seg |-> st.seg, hucs |-> h, raised |-> TRUE, off |-> FALSE]
            ELSE inserted(st, insertLoop([hucs |-> h, raised |-> FALSE],
                                         handlesIn(st.to_add, {}), st.to_add, st.seg,
                                         tol))
    IN moved(snapNodes([seg |-> sg, to_add |-> <<>>, off |-> FALSE], h,
                       preOrder(T, T.root), tol))

\* ---------------------------------------------------------------- cut_and_snap_crossings
\* hydrography.py:210-215 and 274-278: the first piece of the cut segment
\* takes the handle, a second one a new handle of the same component
splitSpine(h, c, seg_handle, new_spine) ==
    IF Len(new_spine) > 1 THEN addSegs(h, seg_handle, c, new_spine)
    ELSE split(h, seg_handle, new_spine,
               [h EXCEPT !.segments[seg_handle] = new_spine[1]])

\* the reach_node whose crossing made the last split of the history
cutFor(reach_node, h) == [h EXCEPT !.splits[Len(h.splits)].reach = reach_node]

\* hydrography.py:190-206: the piece of a reach cut by the exterior boundary
\* that is kept; raised when an assert of this choice fails
keptPiece(h, r, new_reach_segs, tol) ==
    LET first == new_reach_segs[1]
        last == new_reach_segs[Len(new_reach_segs)]
    IN IF containsBuffered(h, first[1], tol)
       THEN [raised |-> Len(new_reach_segs) = 2 /\ contains(h, Last(last)),
             segment |-> first]
       ELSE IF Len(new_reach_segs) = 2 /\ containsBuffered(h, Last(last), tol)
       THEN [raised |-> contains(h, first[1]), segment |-> last]
       ELSE [raised |-> FALSE, segment |-> r]

\* hydrography.py:175-253: the first segment of an exterior component that a
\* reach intersects; w is [hucs, seg, raised, off], r the segment the reach
\* had when the cutting of it began
RECURSIVE cutExterior(_, _, _, _, _, _)
cutExterior(w, node, r, b, k, tol) ==
    IF k > Len(w.hucs.boundaries[b]) THEN w
    ELSE LET seg_handle == w.hucs.boundaries[b][k]
             line == w.hucs.segments[seg_handle]
             keeping(kept, new_spine) ==
                 IF kept.raised THEN [w EXCEPT !.raised = TRUE]
                 ELSE [w EXCEPT
                         !.seg[node] = kept.segment,
                         !.hucs = cutFor(node, splitSpine(@, <<"boundaries", b>>,
                                                          seg_handle, new_spine))]
             pieces(new_spine, new_reach_segs) ==
                 IF Len(new_reach_segs) > 2 \/ Len(new_spine) > 2
                 THEN [w EXCEPT !.raised = TRUE]
                 ELSE keeping(keptPiece(w.hucs, w.seg[node], new_reach_segs, tol),
                              new_spine)
         IN IF ~intersects(line, r) THEN cutExterior(w, node, r, b, k + 1, tol)
            ELSE IF offGridMeet(line, r) THEN [w EXCEPT !.off = TRUE]
            ELSE pieces(cut(line, r, tol), cut(r, line, tol))

\* hydrography.py:258-279: the first segment of an interior component that a
\* reach intersects
RECURSIVE cutInterior(_, _, _, _, _, _)
cutInterior(w, node, r, i, k, tol) ==
    IF k > Len(w.hucs.intersections[i]) THEN w
    ELSE LET seg_handle == w.hucs.intersections[i][k]
             line == w.hucs.segments[seg_handle]
             pieces(new_spine, new_reach_segs) ==
                 IF Len(new_reach_segs) > 2 \/ Len(new_spine) > 2
                 THEN [w EXCEPT !.raised = TRUE]
                 ELSE [w EXCEPT
                         !.seg[node] =
                             IF Len(new_reach_segs) = 2
                             THEN new_reach_segs[1] \o Tail(new_reach_segs[2])
                             ELSE new_reach_segs[1],
                         !.hucs = cutFor(node, splitSpine(@, <<"intersections", i>>,
                                                          seg_handle, new_spine))]
         IN IF ~intersects(line, r) THEN cutInterior(w, node, r, i, k + 1, tol)
            ELSE IF offGridMeet(line, r) THEN [w EXCEPT !.off = TRUE]
            ELSE pieces(cut(line, r, tol), cut(r, line, tol))

\* loops that end at the first segment that is cut, in whichever component
RECURSIVE cutComponents_first(_, _, _, _, _)
cutComponents_first(w, node, r, cs, tol) ==
    IF cs = <<>> \/ w.raised \/ w.off THEN w
    ELSE LET next(w2) ==
                 IF Len(w2.hucs.splits) > Len(w.hucs.splits) THEN w2
                 ELSE cutComponents_first(w2, node, r, Tail(cs), tol)
         IN next(IF Head(cs)[1] = "boundaries"
                 THEN cutExterior(w, node, r, Head(cs)[2], 1, tol)
                 ELSE cutInterior(w, node, r, Head(cs)[2], 1, tol))

\* the loops over the components, for b, spine in hucs.boundaries.items() and
\* for i, spine in hucs.intersections.items()
RECURSIVE cutComponents(_, _, _, _, _)
cutComponents(w, node, r, cs, tol) ==
    IF cs = <<>> \/ w.raised \/ w.off THEN w
    ELSE cutComponents(
            IF Head(cs)[1] = "boundaries"
            THEN cutExterior(w, node, r, Head(cs)[2], 1, tol)
            ELSE cutInterior(w, node, r, Head(cs)[2], 1, tol),
            node, r, Tail(cs), tol)

\* hydrography.py:168-279
cut_and_snap_crossing(w, reach_node, tol) ==
    cutComponents(w, reach_node, w.seg[reach_node], components(w.hucs), tol)

\* hydrography.py:160-162: for tree in rivers, for river_node in
\* tree.preOrder(); w is [hucs, seg, raised, off]
RECURSIVE cutNodes(_, _, _)
cutNodes(w, nodes, tol) ==
    IF nodes = <<>> \/ w.raised \/ w.off THEN w
    ELSE cutNodes(cut_and_snap_crossing(w, Head(nodes), tol), Tail(nodes), tol)

\* hydrography.py:144-165; w is [rivers, seg, catch, hucs, raised, off, log]
cut_and_snap_crossings(w, tol) ==
    LET cleaned(c, cl) ==
            [w EXCEPT !.hucs = c.hucs, !.rivers = cl.rivers, !.seg = cl.seg,
                      !.catch = cl.catch, !.raised = cl.raised, !.log = cl.log]
        crossed(c) ==
            IF c.raised \/ c.off
            THEN [w EXCEPT !.hucs = c.hucs, !.seg = c.seg, !.raised = c.raised,
                           !.off = c.off]
            ELSE cleaned(c, cleanup([rivers |-> w.rivers, seg |-> c.seg,
                                     catch |-> w.catch, raised |-> FALSE,
                                     log |-> w.log],
                                    None, Tol, Tol, FALSE))
    IN crossed(cutNodes([hucs |-> w.hucs, seg |-> w.seg, raised |-> FALSE,
                         off |-> FALSE],
                        Flatten([k \in 1..Len(w.rivers) |->
                                    preOrder(w.rivers[k], w.rivers[k].root)]),
                        tol))

\* ---------------------------------------------------------------- snap
\* hydrography.py:102-103: for tree in rivers: snap_endpoints(tree, hucs, tol);
\* w is [rivers, seg, catch, hucs, raised, off, log]
RECURSIVE snapTrees(_, _, _)
snapTrees(w, k, tol) ==
    IF k > Len(w.rivers) \/ w.raised \/ w.off THEN w
    ELSE LET next(r) ==
                 snapTrees([w EXCEPT !.seg = r.seg, !.hucs = r.hucs,
                                     !.raised = r.raised, !.off = r.off],
                           k + 1, tol)
         IN next(snap_endpoints(w.rivers[k], w.seg, w.hucs, tol))

\* hydrography.py:89-96 and 104-111: the re-validation after a stage
valid(w) == allContinuous(w.rivers, w.seg) /\ polygons(w.hucs)

stage(w, name) == [w EXCEPT !.log = Append(@, [stage |-> name])]

\* hydrography.py:86-87: the stage snap_polygon_endpoints, which leaves
\* new_segments as hucs.segments
junctions(w, new_segments) ==
    [w EXCEPT !.log = Append(@, [stage |-> "snap_polygon_endpoints",
                                 segments |-> new_segments]),
              !.hucs.segments = new_segments]

\* what snap hands back: the list of rivers, a boolean, or an exception
returns(w, kind, flag) ==
    [rivers |-> w.rivers, seg |-> w.seg, catch |-> w.catch, hucs |-> w.hucs,
     log |-> w.log, off |-> w.off, kind |-> kind, flag |-> flag]

\* hydrography.py:113-118: the crossings, the cleanup and the return
snapRest(w, tol, cut_intersections) ==
    LET done(d, cl) ==
            IF cl.raised THEN returns(d, "raise", FALSE)
            ELSE returns(d, "rivers", FALSE)
        cleaned(c, cl) ==
            done([stage(c, "cleanup") EXCEPT
                    !.rivers = cl.rivers, !.seg = cl.seg, !.catch = cl.catch],
                 cl)
        crossed(c) ==
            IF c.raised \/ c.off THEN returns(c, "raise", FALSE)
            ELSE cleaned(c, cleanup([rivers |-> c.rivers, seg |-> c.seg,
                                     catch |-> c.catch, raised |-> FALSE,
                                     log |-> <<>>],
                                    None, Tol, Tol, FALSE))
    IN crossed(IF cut_intersections
               THEN cut_and_snap_crossings(stage(w, "cut_and_snap_crossings"), tol)
               ELSE w)

\* hydrography.py:98-118: the snap of the ends of the reaches and what follows
snapEnds(w, tol, reach_endpoints_tol, cut_intersections) ==
    LET ended(e) ==
            IF e.raised \/ e.off THEN returns(e, "raise", FALSE)
            ELSE IF reach_endpoints_tol # None /\ ~valid(e)
            THEN returns(e, "bool", FALSE)
            ELSE snapRest(e, tol, cut_intersections)
    IN ended(IF reach_endpoints_tol # None
             THEN snapTrees(stage(w, "snap_endpoints"), 1, reach_endpoints_tol)
             ELSE w)

\* hydrography.py:53-118; w is [rivers, seg, catch, hucs, raised, off, log];
\* first is the choice the kd-tree makes among nearest points
snap(w, tol, triple_junctions_tol, reach_endpoints_tol, cut_intersections, first) ==
    LET tjt == IF triple_junctions_tol = None /\ tol # None
               THEN 3 * tol ELSE triple_junctions_tol
        ept == IF reach_endpoints_tol = None /\ tol # None
               THEN 2 * tol ELSE reach_endpoints_tol
        joined(j) ==
            IF tjt # None /\ ~valid(j) THEN returns(j, "bool", FALSE)
            ELSE snapEnds(j, tol, ept, cut_intersections)
    IN IF ~allContinuous(w.rivers, w.seg) \/ ~polygons(w.hucs)
       THEN returns(w, "raise", FALSE)
       ELSE IF Len(w.rivers) = 0 THEN returns(w, "bool", TRUE)
       ELSE joined(IF tjt # None
                   THEN junctions(w, snap_polygon_endpoints(w.hucs, w.rivers, w.seg,
                                                            tjt, first))
                   ELSE w)

\* ---------------------------------------------------------------- inputs
\* A forest of n reaches is given by p, the parent of each reach (0: a root);
\* parents have smaller ids, so node.children is in increasing id order and
\* every shape of ordered forest occurs.
ParentVecs(n) == {p \in [1..n -> 0..(n - 1)] : \A i \in 1..n : p[i] < i}

RECURSIVE isUnder(_, _, _)
isUnder(p, j, r) == j = r \/ (p[j] # 0 /\ isUnder(p, p[j], r))

RECURSIVE rootOf(_, _)
rootOf(p, i) == IF p[i] = 0 THEN i ELSE rootOf(p, p[i])

mkRiver(n, p, r) ==
    [root |-> r,
     kids |-> [m \in {j \in 1..n : isUnder(p, j, r)} |->
                  SortedSeq({j \in 1..n : p[j] = m})]]

mkRivers(n, p) ==
    LET roots == SortedSeq({i \in 1..n : p[i] = 0})
    IN [k \in 1..Len(roots) |-> mkRiver(n, p, roots[k])]

\* Geometry of a forest given the length of each reach: river r lies on the
\* line y = r, its outlet at x = 0; coords[0] of a reach is its upstream end,
\* coords[-1] its downstream end, which is coords[0] of its parent.
RECURSIVE upX(_, _, _)
upX(p, lens, i) == (IF p[i] = 0 THEN 0 ELSE upX(p, lens, p[i])) + lens[i]

mkSeg(n, p, lens) ==
    [i \in 1..n |-> << <<upX(p, lens, i), rootOf(p, i)>>,
                       <<upX(p, lens, i) - lens[i], rootOf(p, i)>> >>]

leavesOf(n, p) == {i \in 1..n : ~\E j \in 1..n : p[j] = i}

\* the values of the area property and the thresholds they are pruned by
Areas == {1, 2}
AreaThresholds == {1, 2, 3}

\* the hydrologic keys a divergence's UpstreamMainPathHydroSeq takes: 0 is the
\* key of no reach, 1 and 2 are the keys of reaches 1 and 2
Keys == {0, 1, 2}

noHucs ==
    [segments |-> <<>>, boundaries |-> <<>>, intersections |-> <<>>, gons |-> <<>>,
     splits |-> <<>>]

\* forests that differ in the area property
InputsArea ==
    UNION {{[n |-> n, p |-> p, area |-> a, dv |-> [i \in 1..n |-> None],
             seg |-> mkSeg(n, p, [i \in 1..n |-> 2]), hucs |-> noHucs] :
              p \in ParentVecs(n), a \in [1..n -> Areas]} : n \in 0..MaxNodes}

\* forests that differ in the divergences: dv[i] is None (DivergenceCode 0) or
\* the UpstreamMainPathHydroSeq of a leaf of DivergenceCode 2
\* (no reach is its own upstream main path)
DivsOf(n, p) ==
    {f \in [1..n -> Keys \cup {None}] :
        \A i \in 1..n : /\ i \notin leavesOf(n, p) => f[i] = None
                        /\ f[i] # i}

InputsDiv ==
    UNION {UNION {{[n |-> n, p |-> p, area |-> [i \in 1..n |-> 2], dv |-> d,
                    seg |-> mkSeg(n, p, [i \in 1..n |-> 2]), hucs |-> noHucs] :
                     d \in DivsOf(n, p)} : p \in ParentVecs(n)} :
           n \in 1..MaxNodes}

Inputs == InputsArea \cup InputsDiv

\* the lengths of reaches and the tolerances they are cleaned by, in units of
\* _tol; None switches a stage of cleanup off
Lens == {1, 2, 3}
Tols == {None, Tol, 2 * Tol}

\* forests that differ in the lengths of the reaches
InputsLen ==
    UNION {{[n |-> n, p |-> p, area |-> [i \in 1..n |-> 2],
             dv |-> [i \in 1..n |-> None], seg |-> mkSeg(n, p, l),
             hucs |-> noHucs] :
              p \in ParentVecs(n), l \in [1..n -> Lens]} : n \in 1..MaxGeoNodes}

\* chains of reaches of three points, the middle one b[i] off the line
Chain(n) == [i \in 1..n |-> i - 1]

mkBent(n, b) ==
    [i \in 1..n |-> << <<2 * i, 1>>, <<2 * i - 1, 1 + b[i]>>, <<2 * i - 2, 1>> >>]

InputsBend ==
    UNION {{[n |-> n, p |-> Chain(n), area |-> [i \in 1..n |-> 2],
             dv |-> [i \in 1..n |-> None], seg |-> mkBent(n, b),
             hucs |-> noHucs] : b \in [1..n -> 0..2]} : n \in 1..2}

\* A watershed of one HUC, 12 units by 8: its boundary is one closed segment
\* that starts and ends at the pour point (12, 4).
HucsOne ==
    [segments |-> << << <<12, 4>>, <<12, 8>>, <<0, 8>>, <<0, 0>>, <<12, 0>>, <<12, 4>> >> >>,
     boundaries |-> << <<1>> >>,
     intersections |-> <<>>,
     gons |-> <<[b |-> <<1>>, i |-> <<>>]>>,
     splits |-> <<>>]

\* Two HUCs side by side that share the interior boundary x = 6; the triple
\* junctions are (6, 0) and (6, 8).
HucsTwo ==
    [segments |-> << << <<6, 0>>, <<0, 0>>, <<0, 8>>, <<6, 8>> >>,
                     << <<6, 8>>, <<12, 8>>, <<12, 0>>, <<6, 0>> >>,
                     << <<6, 0>>, <<6, 8>> >> >>,
     boundaries |-> << <<1>>, <<2>> >>,
     intersections |-> << <<3>> >>,
     gons |-> <<[b |-> <<1>>, i |-> <<1>>], [b |-> <<2>>, i |-> <<1>>]>>,
     splits |-> <<>>]

\* One HUC with a neck two units wide around (6, 4), its boundary in four
\* segments that meet at (0, 4), (6, 2), (12, 4) and (6, 6).
HucsNeck ==
    [segments |-> << << <<0, 4>>, <<0, 0>>, <<5, 0>>, <<5, 2>>, <<6, 2>> >>,
                     << <<6, 2>>, <<7, 2>>, <<7, 0>>, <<12, 0>>, <<12, 4>> >>,
                     << <<12, 4>>, <<12, 8>>, <<7, 8>>, <<7, 6>>, <<6, 6>> >>,
                     << <<6, 6>>, <<5, 6>>, <<5, 8>>, <<0, 8>>, <<0, 4>> >> >>,
     boundaries |-> << <<1, 2, 3, 4>> >>,
     intersections |-> <<>>,
     gons |-> <<[b |-> <<1>>, i |-> <<>>]>>,
     splits |-> <<>>]

\* where along y = 4 the reaches of these watersheds begin and end: on the
\* boundaries x = 6 and x = 12, one, two and four units from them, and outside
Xs == {2, 5, 6, 10, 11, 12, 13, 15}

\* a river along y = 4: a chain of Len(xs) - 1 reaches that flows from
\* xs[1] to its outlet Last(xs); the root is reach 1
mkChain(xs) ==
    LET n == Len(xs) - 1
    IN [i \in 1..n |-> << <<xs[n - i + 1], 4>>, <<xs[n - i + 2], 4>> >>]

isMonotone(xs) ==
    \/ \A i \in 1..(Len(xs) - 1) : xs[i] < xs[i + 1]
    \/ \A i \in 1..(Len(xs) - 1) : xs[i] > xs[i + 1]

\* watersheds with a river, and each watershed without any
InputsSnap ==
    UNION {{[n |-> n, p |-> Chain(n), area |-> [i \in 1..n |-> 2],
             dv |-> [i \in 1..n |-> None], seg |-> mkChain(xs), hucs |-> h] :
              xs \in {xs \in [1..(n + 1) -> Xs] : isMonotone(xs)},
              h \in {HucsOne, HucsTwo, HucsNeck}} : n \in 1..2}
      \cup {[n |-> 0, p |-> <<>>, area |-> <<>>, dv |-> <<>>, seg |-> <<>>, hucs |-> h] :
               h \in {HucsOne, HucsTwo, HucsNeck}}

\* the forests of at most MaxGeoNodes reaches
\* a root with more children than the other forests have, all lengths
InputsStar ==
    {[n |-> MaxGeoNodes + 1, p |-> [i \in 1..(MaxGeoNodes + 1) |-> Min(i - 1, 1)],
      area |-> [i \in 1..(MaxGeoNodes + 1) |-> 2],
      dv |-> [i \in 1..(MaxGeoNodes + 1) |-> None],
      seg |-> mkSeg(MaxGeoNodes + 1, [i \in 1..(MaxGeoNodes + 1) |-> Min(i - 1, 1)], l),
      hucs |-> noHucs] :
       l \in [1..(MaxGeoNodes + 1) -> Lens]}

InputsGeo ==
    InputsLen \cup InputsBend \cup InputsSnap \cup InputsStar
      \cup {inp \in Inputs : inp.n <= MaxGeoNodes}

noCall ==
    [op |-> "none", count |-> None, area |-> None, preserve_catchments |-> FALSE,
     simp_tol |-> None, prune_tol |-> None, merge_tol |-> None,
     tol |-> None, triple_junctions_tol |-> None, reach_endpoints_tol |-> None,
     cut_intersections |-> FALSE,
     rivers |-> <<>>, seg |-> <<>>, catch |-> <<>>, hucs |-> noHucs]

InitOf(I) ==
    \E inp \in I :
        /\ rivers = mkRivers(inp.n, inp.p)
        /\ seg = inp.seg
        /\ prop = [i \in 1..inp.n |->
                     [area |-> inp.area[i],
                      DivergenceCode |-> IF inp.dv[i] = None THEN 0 ELSE 2,
                      UpstreamMainPathHydroSeq |-> inp.dv[i]]]
        /\ catch = [i \in 1..inp.n |-> {i}]
        /\ hucs = inp.hucs
        /\ call = noCall
        /\ ret = [kind |-> "none", flag |-> FALSE]
        /\ log = <<>>

Init == InitOf(Inputs)

InitGeo == InitOf(InputsGeo)

\* ---------------------------------------------------------------- the exposed operations
\* the caller holds a forest and calls one exposed operation on it
Idle == call.op = "none"

started(op) ==
    [noCall EXCEPT !.op = op, !.rivers = rivers, !.seg = seg, !.catch = catch,
                   !.hucs = hucs]

FilterSmallRivers ==
    /\ Idle
    /\ \E count \in 0..(MaxNodes + 1) :
          /\ call' = [started("filterSmallRivers") EXCEPT !.count = count]
          /\ rivers' = filterSmallRivers(rivers, count)
    /\ ret' = [kind |-> "rivers", flag |-> FALSE]
    /\ UNCHANGED <<seg, prop, catch, hucs, log>>

PruneByArea ==
    /\ Idle
    /\ \E area \in AreaThresholds, pc \in BOOLEAN :
          \E r \in {pruneByArea(rivers, catch, area, pc)} :
             /\ call' = [started("pruneByArea") EXCEPT
                            !.area = area, !.preserve_catchments = pc]
             /\ rivers' = r.rivers
             /\ catch' = r.catch
             /\ log' = <<[count |-> r.count, pruned |-> r.log]>>
    /\ ret' = [kind |-> "rivers", flag |-> FALSE]
    /\ UNCHANGED <<seg, prop, hucs>>

\* the three functions return a list, or raise and leave the caller's list
removed(op, r, pc) ==
    /\ call' = [started(op) EXCEPT !.preserve_catchments = pc]
    /\ rivers' = IF r.raised THEN r.all ELSE r.out
    /\ catch' = r.catch
    /\ log' = r.log
    /\ ret' = [kind |-> IF r.raised THEN "raise" ELSE "rivers", flag |-> FALSE]
    /\ UNCHANGED <<seg, prop, hucs>>

RemoveDiversions ==
    /\ Idle
    /\ \E pc \in BOOLEAN :
          \E r \in {removeDiversions(rivers, catch, pc)} : removed("removeDiversions", r, pc)

RemoveBraids ==
    /\ Idle
    /\ \E pc \in BOOLEAN :
          \E r \in {removeBraids(rivers, catch, pc)} : removed("removeBraids", r, pc)

RemoveDivergences ==
    /\ Idle
    /\ \E pc \in BOOLEAN :
          \E r \in {removeDivergences(rivers, catch, pc)} : removed("removeDivergences", r, pc)

\* cleanup works in place and returns nothing; a failed assert raises
Cleanup ==
    /\ Idle
    /\ \E simp_tol \in {None, Tol}, prune_tol \in Tols, merge_tol \in Tols,
          pc \in BOOLEAN :
          \E w \in {cleanup([rivers |-> rivers, seg |-> seg, catch |-> catch,
                              raised |-> FALSE, log |-> <<>>],
                             simp_tol, prune_tol, merge_tol, pc)} :
             /\ call' = [started("cleanup") EXCEPT
                            !.simp_tol = simp_tol, !.prune_tol = prune_tol,
                            !.merge_tol = merge_tol, !.preserve_catchments = pc]
             /\ rivers' = w.rivers
             /\ seg' = w.seg
             /\ catch' = w.catch
             /\ log' = w.log
             /\ ret' = [kind |-> IF w.raised THEN "raise" ELSE "unit", flag |-> FALSE]
    /\ UNCHANGED <<prop, hucs>>

Next ==
    \/ FilterSmallRivers
    \/ PruneByArea
    \/ RemoveDiversions
    \/ RemoveBraids
    \/ RemoveDivergences

Spec == Init /\ [][Next]_vars

\* the caller's state as the operations on rivers and hucs thread it
world ==
    [rivers |-> rivers, seg |-> seg, catch |-> catch, hucs |-> hucs,
     raised |-> FALSE, off |-> FALSE, log |-> <<>>]

\* snap returns the rivers or a boolean, or raises
Snap ==
    /\ Idle
    /\ \E tjt \in {None, Tol}, ept \in {None, Tol}, cut_intersections \in BOOLEAN,
          first \in BOOLEAN :
          \E r \in {snap(world, Tol, tjt, ept, cut_intersections, first)} :
             /\ ~r.off
             /\ call' = [started("snap") EXCEPT
                            !.tol = Tol, !.triple_junctions_tol = tjt,
                            !.reach_endpoints_tol = ept,
                            !.cut_intersections = cut_intersections]
             /\ rivers' = r.rivers
             /\ seg' = r.seg
             /\ catch' = r.catch
             /\ hucs' = r.hucs
             /\ log' = r.log
             /\ ret' = [kind |-> r.kind, flag |-> r.flag]
    /\ UNCHANGED prop

\* cut_and_snap_crossings returns the rivers, or raises
CutAndSnapCrossings ==
    /\ Idle
    /\ \E r \in {cut_and_snap_crossings(world, Tol)} :
          /\ ~r.off
          /\ call' = [started("cut_and_snap_crossings") EXCEPT !.tol = Tol]
          /\ rivers' = r.rivers
          /\ seg' = r.seg
          /\ catch' = r.catch
          /\ hucs' = r.hucs
          /\ log' = r.log
          /\ ret' = [kind |-> IF r.raised THEN "raise" ELSE "rivers", flag |-> FALSE]
    /\ UNCHANGED prop

\* the operations on forests with a geometry that varies
NextGeo ==
    \/ Next
    \/ Cleanup
    \/ Snap
    \/ CutAndSnapCrossings

SpecGeo == InitGeo /\ [][NextGeo]_vars

\* ---------------------------------------------------------------- claims: helpers
returned == ret.kind = "rivers"

reachCount(T) == Cardinality(DOMAIN T.kids)

roots(rs) == [k \in 1..Len(rs) |-> rs[k].root]

\* the rivers of rs at the indices of I, in the order of rs
RECURSIVE pick(_, _, _)
pick(rs, I, k) ==
    IF k > Len(rs) THEN <<>>
    ELSE (IF k \in I THEN <<rs[k]>> ELSE <<>>) \o pick(rs, I, k + 1)

RECURSIVE below(_, _)
below(T, n) == {n} \cup UNION {below(T, T.kids[n][i]) : i \in 1..Len(T.kids[n])}

\* the tree T without the branch rooted at b
without(T, b) ==
    [root |-> T.root,
     kids |-> [m \in (DOMAIN T.kids) \ below(T, b) |->
                  SelectSeq(T.kids[m], LAMBDA c : c # b)]]

\* the first reach on the path from n to the root whose parent has more than
\* one child, None when there is none
RECURSIVE firstBranch(_, _)
firstBranch(T, n) ==
    LET q == parent(T, n)
    IN IF q = None THEN None
       ELSE IF Len(T.kids[q]) > 1 THEN n ELSE firstBranch(T, q)

divLeaves(T) ==
    {n \in DOMAIN T.kids : T.kids[n] = <<>> /\ prop[n].DivergenceCode = 2}

resolves(T, n) == prop[n].UpstreamMainPathHydroSeq \in DOMAIN T.kids

\* the divergence leaves of T that the operation op is about
actedOn(op, T) ==
    {n \in divLeaves(T) :
        \/ op = "removeDivergences"
        \/ op = "removeBraids" /\ resolves(T, n)
        \/ op = "removeDiversions" /\ ~resolves(T, n)}

\* the river of rs with root r is T; absent: rs has no river with root r
hasRiver(rs, r, T) == \E k \in 1..Len(rs) : rs[k].root = r /\ rs[k] = T
absent(rs, r) == \A k \in 1..Len(rs) : rs[k].root # r

RemoveOps == {"removeDiversions", "removeBraids", "removeDivergences"}

\* ---------------------------------------------------------------- C1
\* C1: filterSmallRivers(rivers, N) returns exactly the input rivers whose reach
\* count is >= N, in their input order and as they were (no river is partially
\* pruned); every returned river has reach count >= N and the reach count
\* removed is the sum of the reach counts of the dropped rivers.
C1_FilterSmallRivers ==
    call.op = "filterSmallRivers" =>
        LET inp  == call.rivers
            kept == {k \in 1..Len(inp) : reachCount(inp[k]) >= call.count}
            drop == (1..Len(inp)) \ kept
        IN /\ returned
           /\ rivers = pick(inp, kept, 1)
           /\ \A k \in 1..Len(rivers) : reachCount(rivers[k]) >= call.count
           /\ SumSeq([k \in 1..Len(inp) |-> reachCount(inp[k])])
                - SumSeq([k \in 1..Len(rivers) |-> reachCount(rivers[k])])
              = SumSeq([k \in 1..Len(inp) |->
                          IF k \in drop THEN reachCount(inp[k]) ELSE 0])

\* a call that drops a river and keeps one of exactly N reaches
C1_Witness ==
    /\ call.op = "filterSmallRivers"
    /\ Len(rivers) < Len(call.rivers)
    /\ \E k \in 1..Len(rivers) : reachCount(rivers[k]) = call.count

\* ---------------------------------------------------------------- C2
\* C2: no river returned by pruneByArea(rivers, A) has a root area property
\* below A, and every input river whose root area property is >= A is returned.
C2_PruneByAreaRoots ==
    call.op = "pruneByArea" =>
        /\ returned
        /\ \A k \in 1..Len(rivers) : prop[rivers[k].root].area >= call.area
        /\ roots(rivers) =
             roots(pick(call.rivers,
                        {k \in 1..Len(call.rivers) :
                            prop[call.rivers[k].root].area >= call.area}, 1))

\* a call that drops a river and keeps one whose root area is exactly A
C2_Witness ==
    /\ call.op = "pruneByArea"
    /\ Len(rivers) < Len(call.rivers)
    /\ \E k \in 1..Len(rivers) : prop[rivers[k].root].area = call.area

\* ---------------------------------------------------------------- C3
\* C3: pruneByArea returns both the count of removed reaches and the list of
\* surviving rivers, the count being the number of reaches removed from the
\* surviving rivers by the call.
C3_ReturnsCountAndRivers ==
    call.op = "pruneByArea" =>
        /\ ret.kind = "count_and_rivers"
        /\ log[1].count =
             SumSeq([k \in 1..Len(rivers) |->
                       reachCount(CHOOSE T \in SeqToSet(call.rivers) :
                                     T.root = rivers[k].root)
                       - reachCount(rivers[k])])

stepsOf(r) == SelectSeq(log, LAMBDA e : e.before.root = r)

C9_UnaffectedRivers ==
    (call.op \in RemoveOps /\ returned) =>
        LET inp == call.rivers
        IN /\ \A k \in 1..Len(inp) :
                 actedOn(call.op, inp[k]) = {} => hasRiver(rivers, inp[k].root, inp[k])
           /\ \A k \in 1..Len(inp) :
                 absent(rivers, inp[k].root) => actedOn(call.op, inp[k]) # {}
           /\ roots(rivers) =
                 roots(pick(inp, {k \in 1..Len(inp) : ~absent(rivers, inp[k].root)}, 1))

\* removeDiversions drops a river and returns, unchanged and in their order, a
\* river that has a braid and a river that has no divergence
C9_Witness ==
    /\ call.op = "removeDiversions"
    /\ returned
    /\ \E i, j, k \in 1..Len(call.rivers) :
          /\ i < k
          /\ actedOn("removeBraids", call.rivers[i]) # {}
          /\ absent(rivers, call.rivers[j].root)
          /\ divLeaves(call.rivers[k]) = {}
          /\ rivers = <<call.rivers[i], call.rivers[k]>>

\* ---------------------------------------------------------------- C4
\* the tolerances of the call that are not None
activeTols == {call.prune_tol, call.merge_tol} \ {None}

\* the reaches of the caller's rivers
reaches == UNION {Nodes(rivers[k]) : k \in 1..Len(rivers)}

\* C4: when cleanup returns normally and prune_tol or merge_tol is not None,
\* every reach that remains in every river, roots included, is strictly longer
\* than the smallest tolerance that is not None; a cleanup that would leave a
\* reach that is not raises instead.
C4_CleanupLengths ==
    (call.op = "cleanup" /\ ret.kind # "raise" /\ activeTols # {}) =>
        \A n \in reaches : \A t \in activeTols :
            (\A u \in activeTols : t <= u) => length100(seg[n]) > 100 * t

\* cleanup returned normally after it merged or pruned a reach of a river
\* of which other reaches remain
C4_Witness ==
    /\ call.op = "cleanup"
    /\ activeTols # {}
    /\ ret.kind = "unit"
    /\ log # <<>>
    /\ \E n \in reaches : n # rivers[1].root

\* ---------------------------------------------------------------- C5
\* the operation returned without raising and without reporting a failure
succeeded ==
    \/ ret.kind \in {"rivers", "unit"}
    \/ ret.kind = "bool" /\ ret.flag

\* C5: after every exposed operation that returns success (snap,
\* cut_and_snap_crossings, cleanup, pruneByArea, removeDiversions,
\* removeBraids, removeDivergences, filterSmallRivers), every river of the
\* result is continuous: the last coordinate of each reach that is not a root
\* equals the first coordinate of its parent.
C5_Continuous ==
    (call.op # "none" /\ succeeded) =>
        \A k \in 1..Len(rivers) :
            \A n \in Nodes(rivers[k]) \ {rivers[k].root} :
                Last(seg[n]) = seg[parent(rivers[k], n)][1]

\* snap returned a river of two reaches after it moved the point in which
\* they meet
C5_Witness ==
    /\ call.op = "snap"
    /\ ret.kind = "rivers"
    /\ \E k \in 1..Len(rivers) :
          \E n \in Nodes(rivers[k]) \ {rivers[k].root} :
              /\ Last(seg[n]) # Last(call.seg[n])
              /\ Last(seg[n]) = seg[parent(rivers[k], n)][1]

\* ---------------------------------------------------------------- C6
\* a re-validation of snap failed: snap stopped after the snap of the triple
\* junctions or of the ends of the reaches, with a river that is not
\* continuous or a boundary that does not close
failedValidation ==
    /\ log # <<>>
    /\ Last(log).stage \in {"snap_polygon_endpoints", "snap_endpoints"}
    /\ ~(allContinuous(rivers, seg) /\ polygons(hucs))

\* C6: whenever snap returns, an empty list of rivers included, it returns
\* the list of rivers or the boolean false, and false exactly when a
\* re-validation after the snap of the triple junctions or of the ends of the
\* reaches failed.
C6_SnapReturns ==
    (call.op = "snap" /\ ret.kind # "raise") =>
        /\ ret.kind = "rivers" \/ (ret.kind = "bool" /\ ~ret.flag)
        /\ (ret.kind = "bool" /\ ~ret.flag) <=> failedValidation

\* ---------------------------------------------------------------- C10
\* snap reported a failure
snapFailed == call.op = "snap" /\ ret.kind = "bool" /\ ~ret.flag

\* no stage after the snaps of the ends was run
noLaterStage ==
    \A i \in 1..Len(log) :
        log[i].stage \in {"snap_polygon_endpoints", "snap_endpoints"}

\* two stores of segments differ at most in the ends of segments
sameButEnds(a, b) ==
    /\ Len(a) = Len(b)
    /\ \A k \in 1..Len(a) :
          /\ Len(a[k]) = Len(b[k])
          /\ \A i \in 2..(Len(a[k]) - 1) : a[k][i] = b[k][i]

\* C10 as amended: when a re-validation fails, snap returns false and runs no
\* later stage, and the river trees are as before the call; after a failure
\* of the snap of the triple junctions the geometry of the rivers is as
\* before, too, and the components of the boundary and the interior vertices
\* of its segments are, but the ends of segments that were moved stay moved.
C10_FailureStops ==
    snapFailed =>
        /\ log # <<>>
        /\ noLaterStage
        /\ rivers = call.rivers
        /\ Last(log).stage = "snap_polygon_endpoints" =>
              /\ seg = call.seg
              /\ hucs.boundaries = call.hucs.boundaries
              /\ hucs.intersections = call.hucs.intersections
              /\ sameButEnds(hucs.segments, call.hucs.segments)

\* snap failed after the snap of the triple junctions, which had moved ends of
\* segments
C10_Witness ==
    /\ snapFailed
    /\ Last(log).stage = "snap_polygon_endpoints"
    /\ hucs.segments # call.hucs.segments

\* C10: when a re-validation fails, snap leaves no partial state: the segment
\* store of the boundary and the geometry of the rivers are as before the
\* call, and no later stage is run.
C10_NoPartialState ==
    snapFailed =>
        /\ hucs.segments = call.hucs.segments
        /\ seg = call.seg
        /\ noLaterStage

\* ---------------------------------------------------------------- C11
\* the components of a store, those of the boundaries before those of the
\* intersections
spines(st) == st.boundaries \o st.intersections

\* two lists hold the same lines, each as often as the other
sameLines(a, b) ==
    /\ Len(a) = Len(b)
    /\ \A x \in SeqToSet(a) \cup SeqToSet(b) :
          Cardinality({i \in 1..Len(a) : a[i] = x})
            = Cardinality({i \in 1..Len(b) : b[i] = x})

\* what the claim says of one split s
splitKeeps(s) ==
    LET n == Len(s.before.segments)
        k == Len(s.segs)
        new == {n + j : j \in 1..(k - 1)}
    IN /\ Len(s.after.segments) = n + k - 1
       /\ sameLines(<<s.after.segments[s.seg_handle]>>
                      \o [j \in 1..(k - 1) |-> s.after.segments[n + j]],
                    s.segs)
       /\ \A j \in 1..n : j # s.seg_handle => s.after.segments[j] = s.before.segments[j]
       /\ Len(spines(s.after)) = Len(spines(s.before))
       /\ \A c \in 1..Len(spines(s.before)) :
             IF s.seg_handle \in SeqToSet(spines(s.before)[c])
             THEN /\ new \subseteq SeqToSet(spines(s.after)[c])
                  /\ SeqToSet(spines(s.after)[c]) = SeqToSet(spines(s.before)[c]) \cup new
             ELSE spines(s.after)[c] = spines(s.before)[c]

outside(h, q) ==
    /\ ~interior(h, q)
    /\ \A e \in exteriorPieces(h) : ~onPiece(q, e[1], e[2])

\* the line crosses the exterior boundary with one end outside the domain
crossesOut(h, line) ==
    /\ Len(line) = 2
    /\ \/ interior(h, line[1]) /\ outside(h, Last(line))
       \/ outside(h, line[1]) /\ interior(h, Last(line))

\* the points in which the line meets the exterior boundary
crossings(h, line) ==
    {m.p : m \in {m \in UNION {meetings(line, <<e[1], e[2]>>) : e \in exteriorPieces(h)} :
                     m.kind = "point"}}

\* the vertices of the segments of the boundaries
vertices(h) ==
    UNION {SeqToSet(h.segments[k]) : k \in SeqToSet(Flatten(h.boundaries))}

\* C12: for a reach that crosses the exterior boundary with one end outside
\* the domain, after cut_and_snap_crossings the geometry of the reach is its
\* piece inside the domain only, also when the reach intersects a segment of
\* an interior boundary, too, and the cut segment of the boundary has a vertex
\* exactly at the crossing.
C12_OutsideDiscarded ==
    (call.op = "cut_and_snap_crossings" /\ ret.kind = "rivers") =>
        \A n \in reaches :
            crossesOut(call.hucs, call.seg[n]) =>
                /\ \A i \in 1..Len(seg[n]) : ~outside(call.hucs, seg[n][i])
                /\ crossings(call.hucs, call.seg[n]) \subseteq vertices(hucs)

\* ---------------------------------------------------------------- C13
\* pruneBySegmentLength removed a leaf, merge spliced out a reach
prunedAny == \E i \in 1..Len(log) : "pruned" \in DOMAIN log[i]
mergedAny == \E i \in 1..Len(log) : "merged" \in DOMAIN log[i]

\* the reaches of a river but its root that are shorter than tol
shortInner(T, sg, tol) == {n \in Nodes(T) \ {T.root} : shorter(sg[n], tol)}

\* what holds of simplify and merge, whatever holds of the pruning
simplifyAndMerge ==
    /\ mergedAny => call.merge_tol # None
    /\ log = <<>> =>
          \A n \in 1..Len(seg) :
              seg[n] = IF call.simp_tol # None
                       THEN simplifyLine(call.seg[n], call.simp_tol)
                       ELSE call.seg[n]
    /\ (/\ call.merge_tol # None
        /\ call.simp_tol = None
        /\ call.rivers # <<>>
        /\ shortInner(call.rivers[1], call.seg, call.merge_tol) # {}) =>
          mergedAny \/ ret.kind = "raise"

reachesOf(rs) == UNION {Nodes(rs[k]) : k \in 1..Len(rs)}

\* the prunes of pruneRiverByArea, in their order
prunes == log[1].pruned

\* C14: after pruneByArea(rivers, A), in every river that is kept every
\* reach but the root has an area property >= A, every reach whose own area
\* and whose ancestors' areas are all >= A remains, and each removed branch is
\* pruned exactly once: the prunes are of children of reaches that remain, none
\* is of a reach that had left the tree already, and together they remove
\* exactly the reaches that are gone.
C14_PruneByAreaTree ==
    (call.op = "pruneByArea" /\ returned) =>
        /\ \A k \in 1..Len(rivers) :
              \A n \in Nodes(rivers[k]) \ {rivers[k].root} : prop[n].area >= call.area
        /\ \A j \in 1..Len(call.rivers) :
              \A n \in Nodes(call.rivers[j]) :
                  (\A m \in SeqToSet(pathToRoot(call.rivers[j], n)) :
                       prop[m].area >= call.area)
                    => n \in reachesOf(rivers)
        /\ \A i \in 1..Len(prunes) :
              /\ prunes[i].node \in Nodes(prunes[i].before)
              /\ parent(prunes[i].before, prunes[i].node) \in reachesOf(rivers)
              /\ \A j \in 1..Len(prunes) : j # i => prunes[j].node # prunes[i].node
        /\ \A j \in 1..Len(call.rivers) :
              sufficientlyBig(call.rivers[j], call.area) =>
                  Nodes(call.rivers[j]) \ reachesOf(rivers)
                    = UNION {below(call.rivers[j], prunes[i].node) :
                               i \in {i \in 1..Len(prunes) :
                                        prunes[i].node \in Nodes(call.rivers[j])}}

\* two children of one reach were pruned, one of them with a reach of too
\* small an area below it
C14_Witness ==
    /\ call.op = "pruneByArea"
    /\ returned
    /\ \E i, j \in 1..Len(prunes) :
          /\ i < j
          /\ parent(prunes[i].before, prunes[i].node)
               = parent(prunes[j].before, prunes[j].node)
          /\ \E m \in below(prunes[i].before, prunes[i].node) \ {prunes[i].node} :
                 prop[m].area < call.area

\* ---------------------------------------------------------------- C15
\* the splits of the history that _cut_and_snap_crossing made
cutSplits == {i \in 1..Len(hucs.splits) : hucs.splits[i].reach # None}

\* the component, of the boundaries and then the intersections, that held the
\* segment of split s
spineOf(s) ==
    CHOOSE c \in 1..Len(spines(s.before)) : s.seg_handle \in SeqToSet(spines(s.before)[c])

\* the segment of split s was the first of its component to intersect line r
firstToMeet(s, r) ==
    LET spine == spines(s.before)[spineOf(s)]
    IN \E k \in 1..Len(spine) :
          /\ spine[k] = s.seg_handle
          /\ intersects(s.before.segments[spine[k]], r)
          /\ \A j \in 1..(k - 1) : ~intersects(s.before.segments[spine[j]], r)

\* C15 as stated: one call of _cut_and_snap_crossing for a reach processes only
\* the first segment of the boundary found to intersect the reach, so at most
\* one segment is cut for a reach, even when the reach intersects segments of
\* several components.
C15_OneCutPerReach ==
    \A i, j \in cutSplits :
        i # j => hucs.splits[i].reach # hucs.splits[j].reach

\* C15, amended: one call of _cut_and_snap_crossing for a reach processes, in
\* each component of the boundary (the exterior ones before the interior ones,
\* in iteration order), only the first segment found to intersect the geometry
\* the reach had when the call began: at most one segment per component is cut,
\* and a reach that intersects segments of several components has one segment
\* cut in each of them.
C15_OneCutPerComponent ==
    /\ \A i, j \in cutSplits :
          (i < j /\ hucs.splits[i].reach = hucs.splits[j].reach)
             => spineOf(hucs.splits[i]) < spineOf(hucs.splits[j])
    /\ call.op = "cut_and_snap_crossings" =>
          /\ \A i \in cutSplits :
                firstToMeet(hucs.splits[i], call.seg[hucs.splits[i].reach])
          /\ (returned /\ ret.kind = "rivers") =>
                \A n \in reachesOf(call.rivers) :
                   \A c \in 1..Len(spines(call.hucs)) :
                      (\E k \in 1..Len(spines(call.hucs)[c]) :
                           intersects(call.hucs.segments[spines(call.hucs)[c][k]],
                                      call.seg[n]))
                        => \E i \in cutSplits :
                              /\ hucs.splits[i].reach = n
                              /\ spineOf(hucs.splits[i]) = c

\* a reach for which a segment of an exterior component and a segment of an
\* interior component were cut
C15_Witness ==
    /\ call.op = "cut_and_snap_crossings"
    /\ returned
    /\ \E i, j \in cutSplits :
          /\ i < j
          /\ hucs.splits[i].reach = hucs.splits[j].reach
          /\ spineOf(hucs.splits[i]) <= Len(hucs.splits[i].before.boundaries)
          /\ spineOf(hucs.splits[j]) > Len(hucs.splits[j].before.boundaries)

\* ---------------------------------------------------------------- C16
\* snap has run its stage snap_polygon_endpoints
joinedJunctions ==
    /\ call.op = "snap"
    /\ log # <<>>
    /\ log[1].stage = "snap_polygon_endpoints"

\* the tolerance of the stage, hydrography.py:72-73
junctionTol ==
    IF call.triple_junctions_tol = None THEN 3 * call.tol ELSE call.triple_junctions_tol

\* the ends of the boundary segments, as handle and index
segmentEnds ==
    UNION {{<<k, 1>>, <<k, Len(call.hucs.segments[k])>>} :
             k \in 1..Len(call.hucs.segments)}

\* where the end e of a segment was before the stage, and where after it
endBefore(e) == call.hucs.segments[e[1]][e[2]]
endAfter(e) == log[1].segments[e[1]][e[2]]

\* the downstream ends of the roots and the upstream ends of the leaves
riverEnds ==
    UNION {{Last(call.seg[call.rivers[k].root])}
             \cup {call.seg[n][1] : n \in leaves(call.rivers[k])} :
             k \in 1..Len(call.rivers)}

\* the downstream ends of all reaches and the upstream ends of the leaves
reachEnds ==
    UNION {{Last(call.seg[n]) : n \in Nodes(call.rivers[k])}
             \cup {call.seg[n][1] : n \in leaves(call.rivers[k])} :
             k \in 1..Len(call.rivers)}

\* the stage left all but the ends of the segments, and the rivers, alone
onlySegmentEnds ==
    /\ Len(log[1].segments) = Len(call.hucs.segments)
    /\ \A k \in 1..Len(call.hucs.segments) :
          /\ Len(log[1].segments[k]) = Len(call.hucs.segments[k])
          /\ \A i \in 2..(Len(call.hucs.segments[k]) - 1) :
                log[1].segments[k][i] = call.hucs.segments[k][i]
    /\ Len(log) = 1 => (rivers = call.rivers /\ seg = call.seg)

\* C16 as stated: the triple-junction snap moves an end of a boundary segment
\* only onto the downstream end of a root or the upstream end of a leaf that
\* lies within the tolerance; an end whose only river point within the
\* tolerance is an interior junction stays, and no river coordinate changes.
C16_OnlyRiverEnds ==
    joinedJunctions =>
        /\ onlySegmentEnds
        /\ \A e \in segmentEnds :
              endAfter(e) # endBefore(e) =>
                  /\ endAfter(e) \in riverEnds
                  /\ dist2(endBefore(e), endAfter(e)) < sq(junctionTol)

\* C16, amended: the triple-junction snap moves an end of a boundary segment
\* only onto the nearest of the downstream ends of all reaches (of a root or
\* not, so an interior junction too) and the upstream ends of the leaves, when
\* that lies within the tolerance; an end with no such point within the
\* tolerance stays, and no river coordinate changes.
C16_NearestReachEnd ==
    joinedJunctions =>
        /\ onlySegmentEnds
        /\ \A e \in segmentEnds :
              IF \E p \in reachEnds : dist2(endBefore(e), p) < sq(junctionTol)
              THEN /\ endAfter(e) \in reachEnds
                   /\ \A p \in reachEnds :
                         dist2(endBefore(e), endAfter(e)) <= dist2(endBefore(e), p)
              ELSE endAfter(e) = endBefore(e)

\* an end of a segment has moved onto an interior junction
C16_Witness ==
    /\ joinedJunctions
    /\ \E e \in segmentEnds :
          /\ endAfter(e) # endBefore(e)
          /\ endAfter(e) \in reachEnds \ riverEnds

\* ---------------------------------------------------------------- C17
\* cleanup has run merge alone: no simplify, and the pruning left out
mergedAlone ==
    /\ call.op = "cleanup"
    /\ call.simp_tol = None
    /\ call.merge_tol # None
    /\ (call.prune_tol = None \/ call.prune_tol = call.merge_tol)

\* the splices of merge, and the asserts of line 740 that failed
merges == {i \in 1..Len(log) : "merged" \in DOMAIN log[i]}
stuck == {i \in 1..Len(log) : "asserted" \in DOMAIN log[i]}

\* the reaches that merge spliced out
mergedNodes == {log[i].merged : i \in merges}

\* what the claim says of the splice m of the log
spliced(m) ==
    LET P == parent(m.before, m.merged)
    IN /\ m.merged # m.before.root
       /\ shorter(m.segment, call.merge_tol)
       /\ Nodes(m.moved) = Nodes(m.before)
       /\ children(m.moved, P) = <<m.merged>>
       /\ SeqToSet(children(m.before, P)) \ {m.merged}
            \subseteq SeqToSet(children(m.moved, m.merged))

\* the reaches are those of the call but the merged ones, each in the river
\* it was in, and as many fewer as there were splices
keptButMerged ==
    /\ Len(rivers) = Len(call.rivers)
    /\ \A k \in 1..Len(rivers) :
          /\ rivers[k].root = call.rivers[k].root
          /\ Nodes(rivers[k]) = Nodes(call.rivers[k]) \ mergedNodes
    /\ Cardinality(reachesOf(rivers))
         = Cardinality(reachesOf(call.rivers)) - Cardinality(merges)

\* C17 as stated: merge(river, tol) never removes the root, removes exactly
\* the reaches but the root that are shorter than tol when they are visited,
\* one reach per splice, and keeps every other reach in its river: before a
\* short reach is spliced out all its siblings have become its children, so
\* that no sibling's branch is lost and the number of reaches falls by the
\* number of merged reaches.
C17_MergeSplices ==
    mergedAlone =>
        /\ stuck = {}
        /\ \A i \in merges : spliced(log[i])
        /\ keptButMerged
====
